---- MODULE Spec2Model ----
(***************************************************************************)
(* A model of the JNI boundary of gatk-minimap2-jni                        *)
(* (org_broadinstitute_hellbender_utils_minimap2_MiniMap2Index.c).         *)
(*                                                                         *)
(* Words of the buffers are 32-bit; they are modelled by their value read  *)
(* as a signed 32-bit integer (the Java side reads them as int).  All      *)
(* values the model produces stay far below 2^27, so no shift or sum of    *)
(* the code wraps inside the bounds explored.                              *)
(*                                                                         *)
(* Pointers are modelled CompCert-style as a block and an offset.  A heap  *)
(* block is a record [c, k, i]: the call that allocated it (0 for the      *)
(* operations that are not createAlignments), its kind and an index.       *)
(* Undefined behaviour (a null dereference, a write past the end of a      *)
(* block, free() of a pointer that malloc did not return, a use of a       *)
(* destroyed index) is recorded in a set of tags and followed by a         *)
(* nondeterministic choice: the process is killed, or it runs on.          *)
(***************************************************************************)
EXTENDS Integers, Sequences, FiniteSets, TLC

\* ---------------------------------------------------------------- bounds
\* the largest number of sequences in a batch
MaxSeqs == 2
\* the length of the non-empty sequences of a batch
MaxLen == 2
\* the largest number of records mm_map returns for one sequence
MaxAligns == 1
\* the largest number of boundary operations in the lifecycle specification
MaxOps == 3
\* the largest query length in the encoder specification
MaxEncLen == 3

\* ------------------------------------------------------- program constants
\* sizeof(uint32_t): the size of one word of the buffers
WordBytes == 4
\* the BAM opcode of a soft clip
SoftClipOp == 4

\* ---------------------------------------------------------------- helpers
RECURSIVE SumSeq(_)
SumSeq(s) == IF s = <<>> THEN 0 ELSE Head(s) + SumSeq(Tail(s))

RECURSIVE Flatten(_)
Flatten(ss) == IF ss = <<>> THEN <<>> ELSE Head(ss) \o Flatten(Tail(ss))

\* the first n elements of s (all of s when it is shorter)
Take(s, n) == SubSeq(s, 1, IF n < Len(s) THEN n ELSE Len(s))

\* all sequences over S of length at most n
SeqsUpTo(S, n) == UNION { [1..k -> S] : k \in 0..n }

\* a C truth value used as an integer: (x > 0) is 1 or 0
BoolInt(b) == IF b THEN 1 ELSE 0

\* ~x on a 32-bit int, read as signed: the bitwise complement is -x - 1
BitNot(x) == (0 - x) - 1

\* x << 4 (no wrap for x < 2^27)
Shl4(x) == x * 16

\* (n << 4) | 4: the low four bits of n << 4 are zero, so the OR adds 4
SoftClipWord(n) == Shl4(n) + SoftClipOp

\* -------------------------------------------------- engine records (mm_reg1_t)
\* p is the mm_extra_t pointer: null, or a block holding n_cigar ops
NullExtra == [null |-> TRUE, cigar |-> <<>>]
Extra(ops) == [null |-> FALSE, cigar |-> ops]

\* native CIGAR ops as the engine packs them: 6M is (6<<4)|0, 1I is (1<<4)|1
NativeM == Shl4(6)
NativeI == Shl4(1) + 1

Reg(rid, rs, mapq, rev, p, qs, qe) ==
    [rid |-> rid, rs |-> rs, mapq |-> mapq, rev |-> rev, p |-> p, qs |-> qs, qe |-> qe]

\* -------------------------------------------------- the record encoder
\* line 152, the size pass: nCigar = p ? n_cigar + (qs > 0) + (qe < seqLen) : 0
SizeNCigar(r, seqLen) ==
    IF ~r.p.null
    THEN Len(r.p.cigar) + BoolInt(r.qs > 0) + BoolInt(r.qe < seqLen)
    ELSE 0

\* line 153: the bytes the size pass counts for one record
SizeAlign(r, seqLen) == (4 + SizeNCigar(r, seqLen)) * WordBytes

\* lines 148-155: len, the bytes of a group without its length prefix
RECURSIVE SizeRegs(_, _)
SizeRegs(regs, seqLen) ==
    IF regs = <<>> THEN 0
    ELSE SizeAlign(Head(regs), seqLen) + SizeRegs(Tail(regs), seqLen)

GroupLen(regs, seqLen) == WordBytes + SizeRegs(regs, seqLen)

\* a sign flip in place of the complement
MapQNegated(r) == IF r.rev THEN 0 - r.mapq ELSE r.mapq

\* line 167: the third field
MapQField(r) == IF r.rev THEN BitNot(r.mapq) ELSE r.mapq

\* line 168, the write pass: the cigarCount field
CountField(r, seqLen) ==
    IF ~r.p.null
    THEN Len(r.p.cigar) + BoolInt(r.qs > 0) + BoolInt(r.qe < seqLen)
    ELSE 0

\* lines 169-171: the leading soft clip
LeadClip(r, seqLen) == IF r.qs > 0 THEN <<SoftClipWord(r.qs)>> ELSE <<>>

\* lines 172-176: the native ops
NativeOps(r) == IF ~r.p.null THEN r.p.cigar ELSE <<>>

\* the trailing clip given the end offset instead of the remainder
TrailClipOfQe(r, seqLen) ==
    IF r.qe < seqLen THEN <<SoftClipWord(r.qe)>> ELSE <<>>

\* lines 177-179: the trailing soft clip
TrailClip(r, seqLen) ==
    IF r.qe < seqLen THEN <<SoftClipWord(seqLen - r.qe)>> ELSE <<>>

\* lines 165-179: the words the write pass emits for one record, in order
WriteAlign(r, seqLen) ==
    <<r.rid, r.rs, MapQField(r), CountField(r, seqLen)>>
        \o LeadClip(r, seqLen) \o NativeOps(r) \o TrailClip(r, seqLen)

\* lines 162-183: the words the write pass emits for all records of a sequence
RECURSIVE WriteRegs(_, _)
WriteRegs(regs, seqLen) ==
    IF regs = <<>> THEN <<>>
    ELSE WriteAlign(Head(regs), seqLen) \o WriteRegs(Tail(regs), seqLen)

\* lines 159-183: everything written through buf, starting at the block's base
WriteGroup(regs, seqLen) ==
    <<GroupLen(regs, seqLen), Len(regs)>> \o WriteRegs(regs, seqLen)

\* line 156: malloc(len + sizeof(uint32_t)), in words
GroupCapacity(regs, seqLen) == (GroupLen(regs, seqLen) + WordBytes) \div WordBytes

\* ------------------------------------------------------------ the state
VARIABLES
    cfg,      \* the input universe of the run: batch sizes, lengths, engine results
    idx,      \* the index behind the handle: its state and its contig names
    heap,     \* the live malloc blocks
    call,     \* per createAlignments call: its program counter and locals
    ops,      \* the number of boundary operations performed so far
    last,     \* the outcome of the last boundary operation that is not an align
    crashed,  \* the process was killed by the outcome of undefined behaviour
    enc       \* the record encoder run on its own: input, size pass, write pass

vars == <<cfg, idx, heap, call, ops, last, crashed, enc>>

\* the calls that execute createAlignments in this run
Calls == DOMAIN call

Blk(c, k, i) == [c |-> c, k |-> k, i |-> i]

\* line 83: the handle openIndex returns, the address of the index (non-zero)
IndexAddr == 4096

NullRet == [null |-> TRUE, len |-> 0, words |-> <<>>]
BufRet(len, words) == [null |-> FALSE, len |-> len, words |-> words]

IdleCall ==
    [pc |-> "idle", idxAddr |-> 0, seqsBuf |-> <<>>, nSeqs |-> 0,
     pLengths |-> 0, pSeqs |-> 0, slots |-> <<>>, groups |-> <<>>,
     seqId |-> 0, ppAligns |-> 0, totLen |-> 0,
     allBufBase |-> FALSE, allBuf |-> 0, out |-> <<>>,
     errs |-> 0, ret |-> NullRet, ub |-> {},
     log |-> <<>>, regsSeen |-> <<>>, tbufInits |-> 0, tbufDestroys |-> 0,
     failedAt |-> 0, path |-> "none", idxState |-> "none",
     groupFrees |-> <<>>, engineFrees |-> <<>>]

\* the batches of the universe: the header words [count][length_0 .. length_{count-1}]
Batches ==
    { <<Len(ls)>> \o ls : ls \in SeqsUpTo(cfg.lens, cfg.maxSeqs) }

Extras == {NullExtra, Extra(<<NativeM>>)}

\* what mm_map (line 146) may return for a query of length seqLen: nothing for
\* an empty query; otherwise records covering the whole query and, for
\* seqLen >= 2, records clipped on both sides; each with or without a CIGAR
AlignRegs(seqLen) ==
    (IF seqLen >= 1
     THEN { Reg(0, 9, 60, FALSE, p, 0, seqLen) : p \in Extras }
     ELSE {})
        \cup (IF seqLen >= 2
              THEN { Reg(1, 3, 7, TRUE, p, 1, seqLen - 1) : p \in Extras }
              ELSE {})

\* the handles a caller can pass: null, or the one openIndex returned
HandleArgs == {0} \cup (IF idx.state = "none" THEN {} ELSE {IndexAddr})

\* the count word left out of the walk past the header
FirstSeqOffsetNoCount(nSeqs) == WordBytes * nSeqs

\* lines 131-132: the byte offset of the first sequence, past count and lengths
FirstSeqOffset(nSeqs) == WordBytes * (1 + nSeqs)

\* the copy started at pBuf, the length prefix included
PayloadFromBase(mem, len) == SubSeq(mem, 1, len \div WordBytes)

\* line 205: memcpy(allBuf, pBuf + 1, len) copies len bytes from the second word on
Payload(mem, len) == SubSeq(mem, 2, 1 + (len \div WordBytes))

\* line 221: the pointer handed to free() when NewDirectByteBuffer fails
WrapFailFreePtr(s) == s.allBuf

\* the loop without the break of line 185
EncodeDoneAtEnd(ok, seqId, nSeqs) == seqId + 1 = nSeqs

\* the loop of line 143 ends: by break (the group allocation failed) or at nSeqs
EncodeDone(ok, seqId, nSeqs) == ~ok \/ seqId + 1 = nSeqs

\* return 0 without throwErrorMessage
ReturnedSilently(s) == [s EXCEPT !.ret = NullRet, !.pc = "done"]

\* throwErrorMessage(env, ...) followed by return 0
Thrown(s) == [s EXCEPT !.errs = @ + 1, !.ret = NullRet, !.pc = "done"]

\* an outcome of undefined behaviour: the process is killed where it stands
Killed(c, s, tag) == [call EXCEPT ![c] = [s EXCEPT !.ub = @ \cup {tag}]]

\* ------------------------------------------------- openIndex (lines 70-84)
\* mm_idx_reader_open or mm_idx_reader_read may fail: an error and the handle 0
NameTables == { <<>>, << <<"c", "1">> >>, << <<"c", "1">>, <<"x">> >> }

NoOutcome == [op |-> "none", arg |-> 0, idxState |-> "none", errs |-> 0,
              retNull |-> TRUE, ub |-> {}, engine |-> FALSE, bytes |-> <<>>, len |-> 0]

Quiet == \A c \in Calls : call[c].pc \in {"idle", "done"}

OpenIndex ==
    /\ ~crashed /\ Quiet
    /\ ops < MaxOps
    /\ idx.state = "none"
    /\ \E ok \in BOOLEAN, names \in cfg.names :
        /\ idx' = IF ok THEN [state |-> "open", names |-> names] ELSE idx
        /\ last' = [NoOutcome EXCEPT !.op = "openIndex", !.errs = IF ok THEN 0 ELSE 1,
                                     !.retNull = ~ok]
    /\ ops' = ops + 1
    /\ UNCHANGED <<cfg, heap, call, crashed, enc>>

\* the outcome of a boundary operation called with handle arg
Outcome(op, arg) == [NoOutcome EXCEPT !.op = op, !.arg = arg, !.idxState = idx.state]

\* --------------------------------------------- destroyIndex (lines 86-93)
DestroyIndex ==
    /\ ~crashed /\ Quiet
    /\ ops < MaxOps
    /\ \E arg \in HandleArgs, die \in BOOLEAN :
        LET o == Outcome("destroyIndex", arg)
            stale == arg # 0 /\ idx.state # "open"
        IN /\ die => stale
           /\ crashed' = die
           /\ idx' = IF arg # 0 /\ ~die THEN [idx EXCEPT !.state = "destroyed"] ELSE idx
           /\ last' = IF arg = 0 THEN [o EXCEPT !.errs = 1]
                      ELSE [o EXCEPT !.engine = TRUE, !.retNull = FALSE,
                                     !.ub = IF stale THEN {"staleIndex"} ELSE {}]
    /\ ops' = ops + 1
    /\ UNCHANGED <<cfg, heap, call, enc>>

\* --------------------------------------------- createOptions (lines 34-51)
\* malloc may fail (throw, return 0); mm_mapopt_update is handed idxAddr as it
\* came; the result of NewDirectByteBuffer is returned as it is
CreateOptions ==
    /\ ~crashed /\ Quiet
    /\ ops < MaxOps
    /\ \E arg \in HandleArgs, got \in BOOLEAN, wrapped \in BOOLEAN, die \in BOOLEAN :
        LET o == Outcome("createOptions", arg)
            bad == got /\ (arg = 0 \/ idx.state # "open")
            tag == IF arg = 0 THEN "nullIndex" ELSE "staleIndex"
        IN /\ die => bad
           /\ (~got => wrapped)
           /\ crashed' = die
           /\ heap' = IF got THEN heap \cup {Blk(0, "opts", ops)} ELSE heap
           /\ last' = IF ~got THEN [o EXCEPT !.errs = 1]
                      ELSE [o EXCEPT !.engine = TRUE,
                                     !.ub = IF bad THEN {tag} ELSE {},
                                     !.retNull = die \/ ~wrapped]
    /\ ops' = ops + 1
    /\ UNCHANGED <<cfg, idx, call, enc>>

\* --------------------------------------------- createSeqBuffer (lines 53-61)
\* the lengths a caller asks for: a negative jint (a huge size_t), 0, a batch
SeqBufLengths == {0 - 1, 0, 8}

\* malloc(length) may fail (throw, return 0), and fails for a negative length;
\* the result of NewDirectByteBuffer is returned as it is
CreateSeqBuffer ==
    /\ ~crashed /\ Quiet
    /\ ops < MaxOps
    /\ \E length \in SeqBufLengths, got \in BOOLEAN, wrapped \in BOOLEAN :
        LET o == Outcome("createSeqBuffer", length)
        IN /\ (length < 0 => ~got)
           /\ (~got => wrapped)
           /\ heap' = IF got THEN heap \cup {Blk(0, "seqs", ops)} ELSE heap
           /\ last' = IF ~got THEN [o EXCEPT !.errs = 1]
                      ELSE [o EXCEPT !.retNull = ~wrapped, !.len = length]
    /\ ops' = ops + 1
    /\ UNCHANGED <<cfg, idx, call, crashed, enc>>

\* ---------------------------------------------- getRefNames (lines 228-259)
NulByte == "NUL"

\* lines 238-239: bufLen = nSeqs + the sum of strlen(name)
RECURSIVE NamesStrlen(_)
NamesStrlen(names) ==
    IF names = <<>> THEN 0 ELSE Len(Head(names)) + NamesStrlen(Tail(names))

\* the terminators left out of the size
NamesLenNoTerminators(names) == NamesStrlen(names)

NamesLen(names) == Len(names) + NamesStrlen(names)

\* lines 245-252: each name copied with its terminator, in index order
RECURSIVE NamesBytes(_)
NamesBytes(names) ==
    IF names = <<>> THEN <<>>
    ELSE Head(names) \o <<NulByte>> \o NamesBytes(Tail(names))

GetRefNames ==
    /\ ~crashed /\ Quiet
    /\ ops < MaxOps
    /\ \E arg \in HandleArgs, got \in BOOLEAN, wrapped \in BOOLEAN, die \in BOOLEAN,
          seen \in cfg.names \cup {idx.names} :
        LET o == Outcome("getRefNames", arg)
            stale == arg # 0 /\ idx.state # "open"
            blk == Blk(0, "names", ops)
        IN /\ die => stale
           /\ (~stale => seen = idx.names)
           /\ (~got => wrapped)
           /\ crashed' = die
           /\ heap' = IF arg # 0 /\ ~die /\ got /\ wrapped THEN heap \cup {blk} ELSE heap
           /\ last' =
                IF arg = 0 THEN [o EXCEPT !.errs = 1]
                ELSE IF die THEN [o EXCEPT !.ub = {"staleIndex"}]
                ELSE LET u == [o EXCEPT !.ub = IF stale THEN {"staleIndex"} ELSE {},
                                        !.len = NamesLen(seen)]
                     IN IF ~got THEN [u EXCEPT !.errs = 1]
                        ELSE IF ~wrapped
                        THEN [u EXCEPT !.errs = 1, !.bytes = NamesBytes(seen)]
                        ELSE [u EXCEPT !.retNull = FALSE, !.bytes = NamesBytes(seen)]
    /\ ops' = ops + 1
    /\ UNCHANGED <<cfg, idx, call, enc>>

\* ------------------------------------- createAlignments (lines 112-225)
\* lines 115-133: the checks of the arguments, the batch header, mm_tbuf_init
AlignEnter(c) ==
    /\ ~crashed
    /\ call[c].pc = "idle"
    /\ \E idxAddr \in HandleArgs, optsOk \in BOOLEAN, seqsOk \in BOOLEAN, buf \in Batches :
        LET s == [call[c] EXCEPT !.idxAddr = idxAddr, !.idxState = idx.state] IN
        IF idxAddr = 0 \/ ~optsOk \/ ~seqsOk
        THEN /\ call' = [call EXCEPT ![c] = [Thrown(s) EXCEPT !.path = "badArgs"]]
             /\ UNCHANGED heap
        ELSE /\ call' = [call EXCEPT ![c] =
                    [s EXCEPT !.seqsBuf = buf, !.nSeqs = buf[1], !.pLengths = 1,
                              !.pSeqs = FirstSeqOffset(buf[1]),
                              !.tbufInits = @ + 1, !.pc = "calloc"]]
             /\ heap' = heap \cup {Blk(c, "tbuf", 0)}
    /\ UNCHANGED <<cfg, idx, ops, last, crashed, enc>>

\* lines 134-140: calloc(nSeqs, sizeof(uint32_t*)); a null result (exhaustion, or
\* what calloc may answer for nSeqs = 0) throws and returns at line 137
AlignCalloc(c) ==
    /\ ~crashed
    /\ call[c].pc = "calloc"
    /\ \E ok \in BOOLEAN :
        LET s == call[c] IN
        IF ok
        THEN /\ heap' = heap \cup {Blk(c, "slots", 0)}
             /\ call' = [call EXCEPT ![c] =
                    [s EXCEPT !.slots = [i \in 1..s.nSeqs |-> 0],
                              !.groups = [i \in 1..s.nSeqs |-> <<>>],
                          !.groupFrees = [i \in 1..s.nSeqs |-> 0],
                              !.seqId = 0,
                              !.pc = IF s.nSeqs = 0 THEN "tbufDestroy" ELSE "encode"]]
        ELSE /\ call' = [call EXCEPT ![c] = [Thrown(s) EXCEPT !.path = "slotsFail"]]
             /\ UNCHANGED heap
    /\ UNCHANGED <<cfg, idx, ops, last, crashed, enc>>

\* the frees kept inside if ( buf )
EngineFreesIfBuf(regs, ok) ==
    [cigars |-> [i \in 1..Len(regs) |-> IF ok /\ ~regs[i].p.null THEN 1 ELSE 0],
     array |-> IF ok THEN 1 ELSE 0]

\* lines 181 and 184: free(pAlign->p) for every record, outside if ( buf ), a
\* null p being no payload; then free(pAlignsBase)
EngineFrees(regs, ok) ==
    [cigars |-> [i \in 1..Len(regs) |-> IF regs[i].p.null THEN 0 ELSE 1],
     array |-> 1]

\* lines 143-186: one iteration of the loop over the sequences
AlignEncodeSeq(c) ==
    /\ ~crashed
    /\ call[c].pc = "encode"
    /\ LET s == call[c]
           seqLen == s.seqsBuf[s.pLengths + 1]
       IN \E regs \in SeqsUpTo(AlignRegs(seqLen), cfg.maxAligns),
             ok \in BOOLEAN, die \in BOOLEAN :
            LET written == WriteGroup(regs, seqLen)
                cap == GroupCapacity(regs, seqLen)
                over == ok /\ Len(written) > cap
                stale == idx.state # "open"
                k == s.seqId + 1
                tags == (IF over THEN {"overflow"} ELSE {})
                            \cup (IF stale THEN {"staleIndex"} ELSE {})
                t == [s EXCEPT !.pLengths = @ + 1,
                               !.pSeqs = @ + seqLen,
                               !.log = Append(@, [off |-> s.pSeqs, len |-> seqLen]),
                               !.regsSeen = Append(@, regs),
                               !.engineFrees = Append(@, EngineFrees(regs, ok)),
                               !.slots[k] = IF ok THEN k ELSE 0,
                               !.groups[k] = IF ok THEN Take(written, cap) ELSE <<>>,
                               !.seqId = IF ok THEN @ + 1 ELSE @,
                               !.failedAt = IF ok THEN @ ELSE k,
                               !.path = IF ok THEN @ ELSE "groupFail",
                               !.ub = @ \cup tags,
                               !.pc = IF EncodeDone(ok, s.seqId, s.nSeqs)
                                      THEN "tbufDestroy" ELSE "encode"]
            IN /\ die => (over \/ stale)
               /\ crashed' = die
               /\ call' = [call EXCEPT ![c] = IF die THEN [s EXCEPT !.ub = @ \cup tags] ELSE t]
               /\ heap' = IF ok /\ ~die THEN heap \cup {Blk(c, "group", k)} ELSE heap
    /\ UNCHANGED <<cfg, idx, ops, last, enc>>

\* lines 187-189: mm_tbuf_destroy, and the start of the scan of the slots
AlignTbufDestroy(c) ==
    /\ ~crashed
    /\ call[c].pc = "tbufDestroy"
    /\ heap' = heap \ {Blk(c, "tbuf", 0)}
    /\ call' = [call EXCEPT ![c] =
            [@ EXCEPT !.tbufDestroys = @ + 1, !.ppAligns = 0, !.totLen = 0,
                      !.pc = IF call[c].nSeqs = 0 THEN "allocOut" ELSE "verify"]]
    /\ UNCHANGED <<cfg, idx, ops, last, crashed, enc>>

\* the length assigned where it is to be added
VerifyAddLast(totLen, mem) == mem[1]

\* line 196: totLen += *pBuf
VerifyAdd(totLen, mem) == totLen + mem[1]

\* lines 190-197: one iteration of the scan; a null slot resets totLen and breaks
AlignVerifyStep(c) ==
    /\ ~crashed
    /\ call[c].pc = "verify"
    /\ LET s == call[c]
           pBuf == s.slots[s.ppAligns + 1]
       IN call' = [call EXCEPT ![c] =
            IF pBuf = 0
            THEN [s EXCEPT !.ppAligns = @ + 1, !.totLen = 0, !.pc = "allocOut"]
            ELSE [s EXCEPT !.ppAligns = @ + 1,
                           !.totLen = VerifyAdd(@, s.groups[pBuf]),
                           !.pc = IF s.ppAligns + 1 = s.nSeqs THEN "allocOut" ELSE "verify"]]
    /\ UNCHANGED <<cfg, idx, heap, ops, last, crashed, enc>>

\* lines 198-200: allBufBase = totLen ? malloc(totLen) : 0
AlignAllocOut(c) ==
    /\ ~crashed
    /\ call[c].pc = "allocOut"
    /\ \E ok \in BOOLEAN :
        LET s == call[c]
            got == s.totLen # 0 /\ ok
        IN /\ (s.totLen = 0 => ok)
           /\ heap' = IF got THEN heap \cup {Blk(c, "out", 0)} ELSE heap
           /\ call' = [call EXCEPT ![c] =
                [s EXCEPT !.allBufBase = got, !.allBuf = 0, !.out = <<>>, !.ppAligns = 0,
                          !.path = IF s.path # "none" THEN @
                                   ELSE IF s.totLen = 0 THEN "zeroLen"
                                   ELSE IF ~ok THEN "outFail" ELSE @,
                          !.pc = IF s.nSeqs = 0 THEN "freeSlots" ELSE "copy"]]
    /\ UNCHANGED <<cfg, idx, ops, last, crashed, enc>>

\* the copy loop left after its first slot
CopyDoneAtFirst(ppAligns, nSeqs) == ppAligns >= 0

\* line 201: while ( ppAligns != ppAlignsEnd ), after the ++ of line 202
CopyDone(ppAligns, nSeqs) == ppAligns + 1 = nSeqs

\* lines 201-209: one iteration of the copy loop: int len = *pBuf reads through
\* the slot whether or not it is null; free(pBuf)
AlignCopyStep(c) ==
    /\ ~crashed
    /\ call[c].pc = "copy"
    /\ LET s == call[c]
           pBuf == s.slots[s.ppAligns + 1]
           nextPc == IF CopyDone(s.ppAligns, s.nSeqs) THEN "freeSlots" ELSE "copy"
       IN IF pBuf = 0
          THEN \E die \in BOOLEAN :
                /\ crashed' = die
                /\ call' = IF die THEN Killed(c, s, "nullDeref")
                           ELSE [call EXCEPT ![c] =
                                    [s EXCEPT !.ub = @ \cup {"nullDeref"},
                                              !.ppAligns = @ + 1, !.pc = nextPc]]
                /\ UNCHANGED heap
          ELSE LET len == s.groups[pBuf][1] IN
                /\ call' = [call EXCEPT ![c] =
                        [s EXCEPT !.out = IF s.allBufBase
                                          THEN @ \o Payload(s.groups[pBuf], len) ELSE @,
                                  !.allBuf = IF s.allBufBase THEN @ + len ELSE @,
                                  !.groupFrees[pBuf] = @ + 1,
                                  !.ppAligns = @ + 1, !.pc = nextPc]]
                /\ heap' = heap \ {Blk(c, "group", pBuf)}
                /\ UNCHANGED crashed
    /\ UNCHANGED <<cfg, idx, ops, last, enc>>

\* lines 210-218: the second loop never runs (ppAligns starts at ppAlignsEnd);
\* free(allAlignsBase); without an output buffer, throw and return 0
AlignFreeSlots(c) ==
    /\ ~crashed
    /\ call[c].pc = "freeSlots"
    /\ heap' = heap \ {Blk(c, "slots", 0)}
    /\ call' = [call EXCEPT ![c] =
            IF ~call[c].allBufBase THEN Thrown(call[c]) ELSE [@ EXCEPT !.pc = "wrap"]]
    /\ UNCHANGED <<cfg, idx, ops, last, crashed, enc>>

\* lines 219-224: NewDirectByteBuffer; when it fails, free(allBuf) and throw
AlignWrap(c) ==
    /\ ~crashed
    /\ call[c].pc = "wrap"
    /\ \E ok \in BOOLEAN, die \in BOOLEAN :
        LET s == call[c]
            ptr == WrapFailFreePtr(s)
            bad == ~ok /\ ptr # 0
        IN /\ die => bad
           /\ crashed' = die
           /\ heap' = IF ~ok /\ ptr = 0 THEN heap \ {Blk(c, "out", 0)} ELSE heap
           /\ call' = IF die THEN Killed(c, s, "badFree")
                      ELSE [call EXCEPT ![c] =
                        IF ok
                        THEN [s EXCEPT !.ret = BufRet(s.totLen, s.out), !.pc = "done",
                                       !.path = "ok"]
                        ELSE [Thrown(s) EXCEPT !.path = "wrapFail",
                                 !.ub = IF bad THEN @ \cup {"badFree"} ELSE @]]
    /\ UNCHANGED <<cfg, idx, ops, last, enc>>

Align(c) ==
    \/ AlignEnter(c)
    \/ AlignCalloc(c)
    \/ AlignEncodeSeq(c)
    \/ AlignTbufDestroy(c)
    \/ AlignVerifyStep(c)
    \/ AlignAllocOut(c)
    \/ AlignCopyStep(c)
    \/ AlignFreeSlots(c)
    \/ AlignWrap(c)

\* ------------------------------------------------ the record encoder alone
EncIdle == [st |-> "off", reg |-> Reg(0, 0, 0, FALSE, NullExtra, 0, 0), seqLen |-> 0,
            size |-> 0, words |-> <<>>]

\* the records of the encoder specification: every strand, map qualities 0..255
\* at their ends and in between, no CIGAR, an empty one, one op, two ops, and
\* every 0 <= qs <= qe <= seqLen
EncExtras == {NullExtra, Extra(<<>>), Extra(<<NativeM>>), Extra(<<NativeM, NativeI>>)}

EncMapQs == {0, 1, 60, 255}

EncRegs(seqLen) ==
    { Reg(rid, rs, mapq, rev, p, q[1], q[2]) :
        rid \in {0, 2}, rs \in {0, 9}, mapq \in EncMapQs, rev \in BOOLEAN, p \in EncExtras,
        q \in { x \in (0..seqLen) \X (0..seqLen) : x[1] <= x[2] } }

\* lines 152-153 on one record
EncSizePass ==
    /\ enc.st = "in"
    /\ enc' = [enc EXCEPT !.st = "sized", !.size = SizeAlign(enc.reg, enc.seqLen)]
    /\ UNCHANGED <<cfg, idx, heap, call, ops, last, crashed>>

\* lines 165-179 on one record
EncWritePass ==
    /\ enc.st = "sized"
    /\ enc' = [enc EXCEPT !.st = "written", !.words = WriteAlign(enc.reg, enc.seqLen)]
    /\ UNCHANGED <<cfg, idx, heap, call, ops, last, crashed>>

\* ---------------------------------------------------------- specifications
\* no index is open, nothing is allocated, no call is in progress
InitProgram(universe) ==
    /\ cfg = universe
    /\ idx = [state |-> "none", names |-> <<>>]
    /\ heap = {}
    /\ call = [c \in universe.calls |-> IdleCall]
    /\ ops = 0
    /\ last = NoOutcome
    /\ crashed = FALSE

\* one createAlignments call on an index that openIndex may have opened
Init ==
    /\ InitProgram([calls |-> {1}, maxSeqs |-> MaxSeqs, lens |-> {0, MaxLen},
                     maxAligns |-> MaxAligns, names |-> { << <<"c", "1">> >> }])
    /\ enc = EncIdle

Next ==
    \/ OpenIndex
    \/ Align(1)

Spec == Init /\ [][Next]_vars

\* the life of an index handle: every boundary operation, in any order, around
\* one createAlignments call on a small batch
InitLife ==
    /\ InitProgram([calls |-> {1}, maxSeqs |-> 1, lens |-> {MaxLen}, maxAligns |-> 1,
                     names |-> NameTables])
    /\ enc = EncIdle

NextLife ==
    \/ OpenIndex
    \/ DestroyIndex
    \/ CreateOptions
    \/ CreateSeqBuffer
    \/ GetRefNames
    \/ Align(1)

SpecLife == InitLife /\ [][NextLife]_vars

\* the record encoder on every record of EncRegs, for every query length
InitEnc ==
    /\ InitProgram([calls |-> {}, maxSeqs |-> 0, lens |-> {}, maxAligns |-> 0,
                     names |-> {}])
    /\ enc \in UNION { { [EncIdle EXCEPT !.st = "in", !.reg = r, !.seqLen = L] :
                            r \in EncRegs(L) } : L \in 0..MaxEncLen }

NextEnc ==
    \/ EncSizePass
    \/ EncWritePass

SpecEnc == InitEnc /\ [][NextEnc]_vars

\* two createAlignments calls on the index openIndex opened, each with its own
\* options and its own batch, their steps interleaved in every order
InitConc ==
    /\ InitProgram([calls |-> {1, 2}, maxSeqs |-> 1, lens |-> {0, MaxLen}, maxAligns |-> 1,
                     names |-> { << <<"c", "1">> >> }])
    /\ enc = EncIdle

NextConc ==
    \/ OpenIndex
    \/ Align(1)
    \/ Align(2)

SpecConc == InitConc /\ [][NextConc]_vars

\* ------------------------------------------------------------------ claims
Returned(c) == call[c].pc = "done"

\* the call passed the checks of lines 115-129 and read the batch header
Entered(c) == call[c].tbufInits = 1

\* C1: when the Result Group allocation of some sequence of a batch fails, the
\* call never reads through a null slot, and it returns with one error reported
\* and no output buffer.
C1_GroupFailureAbortsCleanly ==
    \A c \in Calls :
        call[c].failedAt # 0 =>
            /\ "nullDeref" \notin call[c].ub
            /\ Returned(c) => (call[c].errs = 1 /\ call[c].ret.null)

\* C2: a well-formed batch with count = 0, with no allocation failing, returns an
\* output buffer of length 0 and reports no error.
C2_EmptyBatchReturnsEmptyBuffer ==
    \A c \in Calls :
        (Returned(c) /\ Entered(c) /\ call[c].nSeqs = 0 /\ call[c].path # "slotsFail") =>
            (~call[c].ret.null /\ call[c].ret.len = 0 /\ call[c].errs = 0)

\* the length of sequence i of the batch of call c, from its header
SeqLenOf(c, i) == call[c].seqsBuf[i + 1]

\* the words the block of sequence i's Result Group holds once written: what the
\* write pass emitted, as far as the block reaches
GroupWords(c, i) ==
    Take(WriteGroup(call[c].regsSeen[i], SeqLenOf(c, i)),
         GroupCapacity(call[c].regsSeen[i], SeqLenOf(c, i)))

\* C3: when align succeeds, the output buffer is the concatenation, in sequence
\* order, of each Result Group's words after its groupByteLen prefix; its byte
\* length is the sum of the groupByteLen values; and a sequence with no
\* alignments contributes the single word 0.
C3_OutputIsConcatenatedPayloads ==
    \A c \in Calls :
        (Returned(c) /\ ~call[c].ret.null) =>
            LET n == call[c].nSeqs
                payload == [i \in 1..n |-> Tail(GroupWords(c, i))]
                lens == [i \in 1..n |-> GroupWords(c, i)[1]]
            IN /\ Len(call[c].regsSeen) = n
               /\ call[c].ret.words = Flatten(payload)
               /\ call[c].ret.len = SumSeq(lens)
               /\ call[c].ret.len = WordBytes * Len(call[c].ret.words)
               /\ \A i \in 1..n : call[c].regsSeen[i] = <<>> => payload[i] = <<0>>

\* the batch of the spec's end-to-end example: one alignment clipped on both
\* sides with one native op for the first sequence, none for the empty second
C3_Witness ==
    \E c \in Calls :
        /\ Returned(c) /\ ~call[c].ret.null
        /\ call[c].seqsBuf = <<2, MaxLen, 0>>
        /\ call[c].regsSeen = << <<Reg(1, 3, 7, TRUE, Extra(<<NativeM>>), 1, MaxLen - 1)>>, <<>> >>
        /\ call[c].ret.words =
              <<1, 1, 3, BitNot(7), 3, SoftClipWord(1), NativeM, SoftClipWord(1), 0>>

\* the op words of a flattened record: what follows its four fields
CigarOf(words) == SubSeq(words, 5, Len(words))

C5_WritePassEmitsCountedWords ==
    enc.st = "written" =>
        /\ Len(enc.words) = 4 + enc.words[4]
        /\ Len(enc.words) * WordBytes = enc.size
        /\ enc.reg.p.null => (Len(enc.words) = 4 /\ enc.words[4] = 0)

\* C6: the third field of the flattened record is the map quality q when the
\* record is forward-strand and the complement of q, a negative number, when it
\* is reverse-strand: the sign gives the strand, the field or its complement q.
C6_MapQualityCarriesStrand ==
    enc.st = "written" =>
        LET f == enc.words[3]
            q == enc.reg.mapq
        IN /\ ~enc.reg.rev => (f = q /\ f >= 0)
           /\ enc.reg.rev => (f = (0 - 1) - q /\ f < 0)
           /\ (f < 0) = enc.reg.rev
           /\ (IF f < 0 THEN (0 - 1) - f ELSE f) = q

C6_Witness ==
    /\ enc.st = "written"
    /\ enc.reg.rev /\ enc.reg.mapq = 0
    /\ enc.words[3] = 0 - 1

\* what the engine adapter must have been handed for the first m sequences of
\* the batch whose header is buf
ExpectedLog(buf, m) ==
    [i \in 1..m |-> [off |-> 4 * (buf[1] + 1) + SumSeq(SubSeq(buf, 2, i)),
                     len |-> buf[i + 1]]]

\* C7 as stated: for any well-formed batch of N sequences, align passes exactly
\* N sequences to the engine adapter, once each and in index order, sequence i
\* with length L_i at byte offset 4*(N+1) + L_0 + .. + L_{i-1}.
C7_EngineGetsEverySequence ==
    \A c \in Calls :
        (Returned(c) /\ Entered(c)) =>
            call[c].log = ExpectedLog(call[c].seqsBuf, call[c].nSeqs)

\* C7 amended: once the handle and the buffers have passed the checks, the
\* sequences passed to the engine adapter are, once each and in index order,
\* the sequences 0..m-1 of the batch, each with its length and its offset;
\* m = N unless an allocation fails: m = 0 when the slot table cannot be
\* allocated, m = k+1 when the Result Group of sequence k cannot.
C7_EngineGetsSequencesInOrder ==
    \A c \in Calls :
        Entered(c) =>
            /\ Len(call[c].log) <= call[c].nSeqs
            /\ call[c].log = ExpectedLog(call[c].seqsBuf, Len(call[c].log))
            /\ Returned(c) =>
                 Len(call[c].log) =
                    (IF call[c].path = "slotsFail" THEN 0
                     ELSE IF call[c].failedAt # 0 THEN call[c].failedAt
                     ELSE call[c].nSeqs)

C7_Witness ==
    \E c \in Calls :
        /\ Returned(c) /\ call[c].path = "ok"
        /\ call[c].seqsBuf = <<2, MaxLen, MaxLen>>
        /\ call[c].log = <<[off |-> 12, len |-> MaxLen], [off |-> 12 + MaxLen, len |-> MaxLen]>>

\* C8: destroyIndex on a null handle reports an error without calling the
\* engine's destroy; createOptions, align, getRefNames and destroyIndex report
\* an error, and do not touch the index, when called with a null handle or with
\* a handle that destroyIndex has destroyed.
C8_HandleMisuseIsReported ==
    /\ (last.op = "destroyIndex" /\ last.arg = 0) => (last.errs = 1 /\ ~last.engine)
    /\ (/\ last.op \in {"createOptions", "getRefNames", "destroyIndex"}
        /\ (last.arg = 0 \/ last.idxState = "destroyed"))
            => (last.errs >= 1 /\ ~last.engine /\ last.ub = {})
    /\ \A c \in Calls :
        (/\ call[c].pc # "idle"
         /\ (call[c].idxAddr = 0 \/ call[c].idxState = "destroyed"))
            => (Returned(c) /\ call[c].errs >= 1 /\ ~Entered(c))

\* C9: on every exit path of align that created the workspace, the workspace has
\* been destroyed exactly once when align returns.
C9_WorkspaceDestroyedOnEveryExit ==
    \A c \in Calls :
        (Returned(c) /\ Entered(c)) =>
            (call[c].tbufDestroys = 1 /\ Blk(c, "tbuf", 0) \notin heap)

\* C10: when wrapping the filled output buffer fails, exactly the output
\* buffer's allocation is freed, at the address malloc returned; an error is
\* reported and no buffer is returned.
C10_WrapFailureFreesOutput ==
    \A c \in Calls :
        /\ "badFree" \notin call[c].ub
        /\ (Returned(c) /\ call[c].path = "wrapFail") =>
              (Blk(c, "out", 0) \notin heap /\ call[c].errs = 1 /\ call[c].ret.null)

\* C11: getRefNames on an open index with contigs n_0..n_{k-1} returns a buffer
\* whose length is the sum of strlen(n_i) + 1 and whose content is each name
\* followed by its terminator, in index order; the copy pass writes no more
\* bytes than the sizing pass counted.
C11_RefNamesAreTerminatedInOrder ==
    (last.op = "getRefNames" /\ last.idxState = "open" /\ ~last.retNull) =>
        LET k == Len(idx.names) IN
        /\ last.len = SumSeq([i \in 1..k |-> Len(idx.names[i]) + 1])
        /\ last.bytes = Flatten([i \in 1..k |-> Append(idx.names[i], NulByte)])
        /\ Len(last.bytes) <= last.len

C11_Witness ==
    /\ last.op = "getRefNames" /\ last.idxState = "open" /\ ~last.retNull
    /\ idx.names = << <<"c", "1">>, <<"x">> >>
    /\ last.bytes = <<"c", "1", NulByte, "x", NulByte>>
    /\ last.len = 5

\* the blocks the last boundary operation allocated and left live
LiveOfLast == { b \in heap : b.c = 0 /\ b.i = ops - 1 }

\* C12: after createOptions, createSeqBuffer or getRefNames, used as intended:
\* when a handle is returned exactly one allocation of the call is live, the
\* one the handle wraps; when no handle is returned (the raw allocation or the
\* wrapping failed) no allocation of the call is live.
C12_FailureLeavesNothingLive ==
    (/\ last.op \in {"createOptions", "createSeqBuffer", "getRefNames"}
     /\ ~crashed /\ last.ub = {})
        => IF last.retNull
           THEN LiveOfLast = {}
           ELSE Cardinality(LiveOfLast) = 1

\* C13: the second field of the flattened record is the 0-based reference start
\* unchanged when the record is forward-strand, and its complement, a negative
\* number, when the record is reverse-strand.
C13_PosCarriesStrand ==
    enc.st = "written" =>
        LET f == enc.words[2]
            rs == enc.reg.rs
        IN /\ ~enc.reg.rev => f = rs
           /\ enc.reg.rev => (f < 0 /\ f = (0 - 1) - rs)

\* the Encoding phase of call c is over and the call went on to its return
PastCopy(c) == call[c].pc \in {"freeSlots", "wrap", "done"} /\ call[c].slots # <<>>

\* C14: on every path of align that left the Encoding phase, every Result Group
\* that was allocated has been released exactly once when align returns, and
\* none is released twice at any time, whether all groups were allocated or a
\* later allocation failed; the same holds where the copy loop reads through the
\* null slot of the failed allocation.
C14_GroupsReleasedExactlyOnce ==
    \A c \in Calls :
        /\ \A i \in DOMAIN call[c].groupFrees : call[c].groupFrees[i] <= 1
        /\ (PastCopy(c) \/ "nullDeref" \in call[c].ub) =>
              \A i \in 1..call[c].nSeqs :
                  /\ call[c].groupFrees[i] = (IF call[c].slots[i] # 0 THEN 1 ELSE 0)
                  /\ Blk(c, "group", i) \notin heap

\* the first group allocated and released, the allocation of the second failed
C14_Witness ==
    \E c \in Calls :
        /\ Returned(c) /\ call[c].nSeqs = 2 /\ call[c].failedAt = 2
        /\ call[c].groupFrees = <<1, 0>>

\* C15: for every sequence handed to the engine adapter, when the next sequence
\* is processed (and from then on) the CIGAR payload of each returned record
\* has been released exactly once and the record array exactly once, whether
\* or not the Result Group of that sequence was allocated.
C15_EngineRecordsReleasedOnce ==
    \A c \in Calls :
        /\ Len(call[c].engineFrees) = Len(call[c].log)
        /\ \A i \in 1..Len(call[c].log) :
              LET regs == call[c].regsSeen[i]
                  f == call[c].engineFrees[i]
              IN /\ f.array = 1
                 /\ Len(f.cigars) = Len(regs)
                 /\ \A j \in 1..Len(regs) :
                       f.cigars[j] = (IF regs[j].p.null THEN 0 ELSE 1)

\* a record with a CIGAR payload for a sequence whose group allocation failed
C15_Witness ==
    \E c \in Calls :
        /\ call[c].failedAt = 1 /\ call[c].pc = "tbufDestroy"
        /\ Len(call[c].regsSeen[1]) = 1
        /\ ~call[c].regsSeen[1][1].p.null
        /\ call[c].engineFrees = <<[cigars |-> <<1>>, array |-> 1]>>

\* C16: when the Result Group allocation of sequence k fails, slot k holds
\* null, the engine adapter has been invoked for no sequence after k, and every
\* slot after k is null, when the scan of the slots begins and from then on.
C16_FailureStopsEncoding ==
    \A c \in Calls :
        call[c].failedAt # 0 =>
            LET k == call[c].failedAt IN
            /\ call[c].slots[k] = 0
            /\ Len(call[c].log) = k
            /\ \A j \in (k + 1)..call[c].nSeqs : call[c].slots[j] = 0
            /\ call[c].pc # "encode"

\* the first of two allocations failed and the scan is about to begin
C16_Witness ==
    \E c \in Calls :
        /\ call[c].nSeqs = 2 /\ call[c].failedAt = 1
        /\ call[c].pc = "verify" /\ call[c].ppAligns = 0
        /\ call[c].slots = <<0, 0>>

\* the groupByteLen of the group of slot i of call c
GroupByteLen(c, i) == call[c].groups[i][1]

\* every slot of call c holds a group
AllSlotsFilled(c) == \A i \in 1..call[c].nSeqs : call[c].slots[i] # 0

\* C17: the output buffer of align is requested only after the scan has visited
\* all N slots and found every one non-null; no output buffer is allocated
\* while some slot is null; and the size requested is the sum of the
\* groupByteLen values of all groups.
C17_OutputAllocatedAfterFullScan ==
    \A c \in Calls :
        LET s == call[c]
            n == s.nSeqs
        IN /\ (s.pc = "allocOut" /\ s.totLen # 0) =>
                 /\ s.ppAligns = n
                 /\ AllSlotsFilled(c)
                 /\ s.totLen = SumSeq([i \in 1..n |-> GroupByteLen(c, i)])
           /\ (s.allBufBase \/ Blk(c, "out", 0) \in heap) =>
                 /\ s.slots # <<>> /\ AllSlotsFilled(c)
                 /\ s.totLen = SumSeq([i \in 1..n |-> GroupByteLen(c, i)])
           /\ (s.slots # <<>> /\ ~AllSlotsFilled(c) /\ s.pc \notin {"calloc", "encode", "tbufDestroy", "verify"}) =>
                 s.totLen = 0

\* two groups of different lengths, the output buffer allocated for their sum
C17_Witness ==
    \E c \in Calls :
        /\ call[c].pc = "copy" /\ call[c].allBufBase /\ call[c].nSeqs = 2
        /\ GroupByteLen(c, 1) = 5 * WordBytes /\ GroupByteLen(c, 2) = WordBytes
        /\ call[c].totLen = 6 * WordBytes

\* C18: a step in which align rejects its arguments (a null index handle, or
\* an options or sequence buffer whose address cannot be resolved) reports
\* exactly one error and returns no buffer, creates no workspace, allocates
\* nothing, reads no batch header and does not invoke the engine adapter, and
\* leaves the set of live allocations as it was.
C18_BadArgumentsChangeNothing ==
    [][\A c \in Calls :
          (/\ call[c].pc = "idle" /\ call'[c].pc # "idle"
           /\ (call'[c].idxAddr = 0 \/ call'[c].path = "badArgs")) =>
              /\ call'[c].pc = "done"
              /\ call'[c].errs = call[c].errs + 1 /\ call'[c].errs = 1
              /\ call'[c].ret.null
              /\ call'[c].tbufInits = 0
              /\ call'[c].seqsBuf = <<>> /\ call'[c].slots = <<>>
              /\ call'[c].log = <<>>
              /\ heap' = heap]_vars

\* align has rejected its arguments while blocks of earlier calls are live
C18_Witness ==
    \E c \in Calls :
        /\ Returned(c) /\ call[c].path = "badArgs" /\ call[c].idxAddr # 0
        /\ call[c].errs = 1 /\ call[c].ret.null
        /\ heap # {} /\ last.op # "none"
        /\ \A b \in heap : b.c = 0

\* call c is between the creation of its workspace and mm_tbuf_destroy
HoldsWorkspace(c) == call[c].pc \in {"calloc", "encode", "tbufDestroy"}

\* call c is between the allocation of its slot table and free(allAlignsBase)
HoldsSlots(c) ==
    call[c].pc \in {"encode", "tbufDestroy", "verify", "allocOut", "copy", "freeSlots"}

\* C19: of two align calls on the same index whose steps interleave in any
\* order, each creates and destroys its own workspace and its own slot table,
\* the workspace, the slot table and the Result Groups of a call are live for as
\* long as that call uses them (the other call frees none of them), the index is
\* as it was when the call began, and the output a call returns is the one its
\* own batch and its own engine records give when it runs alone.
C19_InterleavedCallsAreIsolated ==
    \A c \in Calls :
        /\ HoldsWorkspace(c) => Blk(c, "tbuf", 0) \in heap
        /\ HoldsSlots(c) => Blk(c, "slots", 0) \in heap
        /\ \A i \in DOMAIN call[c].slots :
              (call[c].slots[i] # 0 /\ call[c].groupFrees[i] = 0)
                  => Blk(c, "group", i) \in heap
        /\ Entered(c) => call[c].idxState = idx.state
        /\ (Returned(c) /\ Entered(c)) =>
              /\ call[c].tbufInits = 1 /\ call[c].tbufDestroys = 1
              /\ Blk(c, "tbuf", 0) \notin heap
              /\ Blk(c, "slots", 0) \notin heap
        /\ (Returned(c) /\ ~call[c].ret.null) =>
              /\ call[c].ret.words =
                    Flatten([i \in 1..call[c].nSeqs |-> Tail(GroupWords(c, i))])
              /\ call[c].ret.len = WordBytes * Len(call[c].ret.words)

====
